---- MODULE Spec2Model ----
(***************************************************************************)
(* Channel ingestion of the medigram pipeline: the Telegram client's       *)
(* message generator (TelegramClientService.scrape_messages and its        *)
(* helpers) and the scraper that consumes it (TelegramScraper).            *)
(*                                                                         *)
(* The Telegram SDK is the environment: get_entity, iter_messages and      *)
(* download_media may succeed, raise FloodWaitError, raise an access       *)
(* error or raise any other error; file writes may fail.                   *)
(*                                                                         *)
(* Everything runs on one asyncio task, so the steps never interleave: the *)
(* generator runs only while its consumer awaits the next record.  Two     *)
(* entry points are modelled, scrape_all_channels and                      *)
(* scrape_single_channel; both run _scrape_channel, which consumes         *)
(* scrape_messages.  Instants are counted in hours.  A recursive           *)
(* scrape_messages call made by the                                        *)
(* FloodWaitError handler replaces the frame that made it: the outer       *)
(* frame only forwards what the inner one yields or raises and ends when   *)
(* it ends, so gen holds the innermost frame and its depth.                *)
(*                                                                         *)
(* Not modelled: the directory creation of _scrape_channel (taken to       *)
(* succeed), log calls, the lengths of the sleeps, and the contents of     *)
(* message fields other than the id, the date and the media fields.        *)
(*                                                                         *)
(* The module also holds the channel registry (channel_config) and the     *)
(* data lake manager (DataLakeManager), which the scraper never calls but  *)
(* whose partition tree, data_dir/raw/telegram_messages, it writes into.   *)
(* The specifications are:                                                 *)
(*   Spec          the scraper and the client, with the shipped registry;  *)
(*   RegistrySpec  the same under any setting of the enabled flags;        *)
(*   IncrementalSpec  the same entered through incremental_scrape;         *)
(*   ConfigSpec    the accessors and the validation of channel_config on   *)
(*                 any channel list of a bounded family;                   *)
(*   LakeSpec      the writers of the tree, from an empty tree:            *)
(*                 save_messages, save_channel_metadata and the file       *)
(*                 writes of a scraper run, with a clock of seconds;       *)
(*   ReadSpec      the readers (get_messages_for_date_range,               *)
(*                 get_latest_messages, validate_data_integrity) on any    *)
(*                 tree of a bounded family, damaged files included;       *)
(*   CleanupSpec   cleanup_old_data on the same trees at any time.         *)
(* A directory's files are visited in the order of their names; the        *)
(* statements about the readers do not depend on that order.  Not          *)
(* modelled in the data lake: get_data_lake_stats, the processed/          *)
(* directories, and directories that hold no file.                         *)
(***************************************************************************)
EXTENDS Integers, Sequences, FiniteSets, TLC

\* ------------------------------------------------------------------ bounds
\* messages held by the largest channel of the platform
MaxMsgs == 2
\* FloodWaitError signals plus failing messages during a single-channel run
MaxDisturbances == 2
\* FloodWaitError signals plus failing messages during an all-channels run
MaxDisturbancesAll == 1

\* limit_per_channel values a caller passes (1000 is the default)
Limits == {0, 1, 2, 1000}
\* days_back values a caller passes (0: no lower bound)
DaysBack == {0, 1}
\* hours_back values a caller passes to incremental_scrape
HoursBack == {0, 12, 24, 48}

\* ------------------------------------------------------- program constants
\* TelegramScraper.__init__: self.channels
channels == <<"chemed", "lobelia4cosmetics", "tikvahpharma">>
\* _scrape_channel: if len(messages) >= 100
BatchSize == 100
\* incremental_scrape: limit_per_channel=500
IncrementalLimit == 500
\* incremental_scrape: days_back=hours_back/24
HoursPerDay == 24

Channels == {channels[i] : i \in 1..Len(channels)}

\* ------------------------------------------------------------ the platform
\* The instant the run happens at (datetime.now()), in hours.
Today == 10 * HoursPerDay

\* The first channel of the list holds MaxMsgs messages, the second one
\* message and the others none; ids 1..n, oldest first.
ChannelIndex(ch) == CHOOSE i \in 1..Len(channels) : channels[i] = ch

ChannelSize(ch) ==
    IF ChannelIndex(ch) = 1 THEN MaxMsgs ELSE IF ChannelIndex(ch) = 2 THEN 1 ELSE 0

\* Message id of a channel of n messages was posted 2 * (n - id) days ago.
DateOf(ch, id) == Today - 2 * HoursPerDay * (ChannelSize(ch) - id)

\* message.media of message id: photo, document or nothing, in turn.
MediaOf(id) ==
    IF id % 3 = 1 THEN "photo" ELSE IF id % 3 = 2 THEN "document" ELSE "none"

\* Python's None / a value, as a sequence of length 0 / 1.
None == << >>
Some(x) == << x >>

\* How a call ends: it returns a value or it raises.
Returned(v) == [raised |-> FALSE, value |-> v]
Raised == [raised |-> TRUE, value |-> << >>]

RECURSIVE SeqOfRange(_, _)
SeqOfRange(lo, hi) == IF lo > hi THEN << >> ELSE << lo >> \o SeqOfRange(lo + 1, hi)

\* client.iter_messages(entity, limit, offset_date, reverse=True): the ids the
\* SDK iterator yields, oldest first: those not older than offset_date, at
\* most `limit` of them.
InRange(ch, off) ==
    SelectSeq(SeqOfRange(1, ChannelSize(ch)),
              LAMBDA id : off = None \/ DateOf(ch, id) >= off[1])

IterMessages(ch, lim, off) ==
    LET all == InRange(ch, off)
    IN  IF Len(all) <= lim THEN all ELSE SubSeq(all, 1, lim)

VARIABLES
    mode,           \* entry point called: "all" (scrape_all_channels), "single"
    pc,             \* position in scrape_all_channels / scrape_single_channel
    channel,        \* channel_username passed to _scrape_channel
    limit,          \* limit_per_channel
    offset_date,    \* None or Some(instant)
    idx,            \* index of the for loop over self.channels
    results,        \* results dict: channel -> None / Some(result)
    cpc,            \* position in _scrape_channel
    messages,       \* _scrape_channel: the in-memory batch
    message_count,  \* _scrape_channel: message_count
    image_count,    \* _scrape_channel: image_count
    chanResult,     \* None / Some(value returned by _scrape_channel)
    gen,            \* the scrape_messages generator (innermost frame)
    floods,         \* FloodWaitErrors raised so far in this run
    faults,         \* per-message failures so far in this run
    trace,          \* history of the client calls of the current channel run
    files,          \* channel -> batch files written (each a sequence of records)
    flushes,        \* history of the current _scrape_channel: outcome of each flush
    metaFiles,      \* channel -> number of metadata.json writes
    metrics,        \* scraping_metrics: channel -> counters of today
    reports,        \* scraping_report files written
    attempted,      \* history: channels _scrape_channel was called for
    pauses,         \* history: channels followed by the pause between channels
    registry,       \* channel_config.ETHIOPIAN_MEDICAL_CHANNELS
    now,            \* data lake: the clock (datetime.now()), in seconds
    fs,             \* data lake: the files under raw/telegram_messages
    saves,          \* data lake: history of the batch writes
    metaWrites,     \* data lake: history of the metadata writes
    out,            \* data lake: the last call and what it returned
    ops             \* data lake: calls that wrote or removed files so far

scraperVars == << mode, pc, channel, limit, offset_date, idx, results, cpc, messages,
                  message_count, image_count, chanResult, gen, floods, faults, trace,
                  files, flushes, metaFiles, metrics, reports, attempted, pauses >>
lakeVars == << now, fs, saves, metaWrites, out, ops >>

vars == << scraperVars, registry, lakeVars >>

orchVars == << mode, pc, channel, limit, offset_date, idx, results, reports,
              attempted, pauses >>
chanVars == << cpc, messages, message_count, image_count, chanResult, flushes >>
storeVars == << files, metaFiles >>

\* ------------------------------------------------------------------ events
\* One entry of the history of a scrape_messages call: what the SDK did
\* ("returned" message id, raised "flood" / "denied" / "other", reached the
\* "end") and what the generator did with the message returned ("dropped" it
\* or yielded the "record" rec to the consumer). failAt is the extraction that
\* raised while that message was processed ("none": nothing raised) and dl the
\* outcome of its media download ("na": no download was attempted).
Event(kind, id, rec, dl, failAt) ==
    [kind |-> kind, id |-> id, rec |-> rec, dl |-> dl, failAt |-> failAt]

SdkEvent(kind) == Event(kind, 0, None, "na", "none")

IdleGen == [pc |-> "none", pos |-> 0, message_count |-> 0, image_count |-> 0,
            depth |-> 0]

ScraperInit ==
    /\ mode = "none"
    /\ pc = "idle"
    /\ channel = ""
    /\ limit = 0
    /\ offset_date = None
    /\ idx = 1
    /\ results = [ch \in Channels |-> None]
    /\ cpc = "none"
    /\ messages = << >>
    /\ message_count = 0
    /\ image_count = 0
    /\ chanResult = None
    /\ gen = IdleGen
    /\ floods = 0
    /\ faults = 0
    /\ trace = << >>
    /\ files = [ch \in Channels |-> << >>]
    /\ flushes = << >>
    /\ metaFiles = [ch \in Channels |-> 0]
    /\ metrics = [ch \in Channels |->
                    [messages |-> 0, images |-> 0, scraping_count |-> 0]]
    /\ reports = << >>
    /\ attempted = << >>
    /\ pauses = << >>


\* ------------------------------------------------- TelegramClientService
FailPoints == {"none", "entities", "reactions", "forward"}
DownloadOutcomes == {"ok", "none", "raise"}

\* Mutant of DownloadMedia: the intended path is returned although the download
\* failed.
DownloadMedia_PathDespiteFailure(id, media_type, outcome) ==
    Some(<< id, media_type >>)

\* _download_media: the path of the downloaded file, or None when
\* download_media returned nothing or raised (both are caught and logged).
DownloadMedia(id, media_type, outcome) ==
    IF outcome = "ok" THEN Some(<< id, media_type >>) ELSE None

\* Mutant of ProcessMessage: a record is returned although an extraction raised.
ProcessMessage_RecordDespiteFailure(ch, id, failAt, dl) ==
    Some([message_id |-> id,
          channel_username |-> ch,
          date |-> DateOf(ch, id),
          has_image |-> (MediaOf(id) = "photo"),
          has_document |-> (MediaOf(id) = "document"),
          image_paths |-> << >>,
          document_paths |-> << >>])

\* _process_message: the record of message id, or None when the extraction of
\* its entities, reactions or forward header raised (failAt); dl is what the
\* SDK's download_media does for this message.
ProcessMessage(ch, id, failAt, dl) ==
    LET media == MediaOf(id)
        image_path == DownloadMedia(id, "image", dl)
        doc_path == DownloadMedia(id, "document", dl)
    IN  IF failAt # "none"
        THEN None
        ELSE Some([message_id |-> id,
                   channel_username |-> ch,
                   date |-> DateOf(ch, id),
                   has_image |-> (media = "photo"),
                   has_document |-> (media = "document"),
                   image_paths |-> IF media = "photo" THEN image_path ELSE << >>,
                   document_paths |-> IF media = "document" THEN doc_path ELSE << >>])

\* The download outcome as the history records it: "na" when the message has
\* no media or the processing failed before the download was attempted.
DownloadSeen(id, failAt, dl) ==
    IF MediaOf(id) = "none" \/ failAt \in {"entities", "reactions"} THEN "na" ELSE dl

CurrentChannel == channel

\* How many more FloodWaitErrors or failing messages the platform may produce
\* in this run.
DisturbancesLeft ==
    (IF mode = "all" THEN MaxDisturbancesAll ELSE MaxDisturbances) - (floods + faults)

InStream == pc = "channel" /\ cpc = "stream"

\* Whether the next resumption of the generator sends a request to the
\* platform, which may then raise: get_entity always does; the SDK iterator
\* does unless it has already returned `limit` messages (limit 0 still asks
\* for the message count).
SdkRequests ==
    gen.pc = "start" \/ (gen.pc = "iter" /\ (gen.pos < limit \/ limit = 0))

\* scrape_messages, first resumption: log the start, client.get_entity.
GetEntity ==
    /\ InStream
    /\ gen.pc = "start"
    /\ gen' = [gen EXCEPT !.pc = "iter"]
    /\ UNCHANGED << orchVars, chanVars, storeVars, floods, faults, trace, metrics >>

\* scraping_metrics.update_channel_metrics(channel, message_count, image_count)
UpdateChannelMetrics(ch, mc, ic) ==
    [metrics EXCEPT ![ch] = [messages |-> @.messages + mc,
                             images |-> @.images + ic,
                             scraping_count |-> @.scraping_count + 1]]

\* The SDK iterator is exhausted: log the success, update the metrics, and the
\* generator ends.
IterEnd ==
    /\ InStream
    /\ gen.pc = "iter"
    /\ gen.pos = Len(IterMessages(CurrentChannel, limit, offset_date))
    /\ metrics' = UpdateChannelMetrics(CurrentChannel, gen.message_count, gen.image_count)
    /\ gen' = [gen EXCEPT !.pc = "done"]
    /\ trace' = Append(trace, SdkEvent("end"))
    /\ UNCHANGED << orchVars, chanVars, storeVars, floods, faults >>

\* get_entity or the SDK iterator raises FloodWaitError.
RaiseFloodWait ==
    /\ InStream
    /\ SdkRequests
    /\ DisturbancesLeft > 0
    /\ floods' = floods + 1
    /\ gen' = [gen EXCEPT !.pc = "flood"]
    /\ trace' = Append(trace, SdkEvent("flood"))
    /\ UNCHANGED << orchVars, chanVars, storeVars, faults, metrics >>

\* Mutant of OnFloodWait: the handler logs and re-raises instead of retrying.
OnFloodWait_Reraise ==
    /\ InStream
    /\ gen.pc = "flood"
    /\ gen' = [gen EXCEPT !.pc = "raised"]
    /\ UNCHANGED << orchVars, chanVars, storeVars, floods, faults, trace, metrics >>

\* except FloodWaitError: log, sleep e.seconds, then iterate a new
\* scrape_messages(channel_username, limit, offset_date) and yield what it yields.
OnFloodWait ==
    /\ InStream
    /\ gen.pc = "flood"
    /\ gen' = [pc |-> "start", pos |-> 0, message_count |-> 0, image_count |-> 0,
               depth |-> gen.depth + 1]
    /\ UNCHANGED << orchVars, chanVars, storeVars, floods, faults, trace, metrics >>

\* get_entity or the SDK iterator raises ChannelPrivateError /
\* ChatAdminRequiredError ("denied") or any other exception ("other"): logged
\* and re-raised; an enclosing FloodWaitError handler does not catch it.
RaiseError ==
    /\ InStream
    /\ SdkRequests
    /\ \E kind \in {"denied", "other"} :
          /\ gen' = [gen EXCEPT !.pc = "raised"]
          /\ trace' = Append(trace, SdkEvent(kind))
    /\ UNCHANGED << orchVars, chanVars, storeVars, floods, faults, metrics >>

\* ------------------------------------------------------- TelegramScraper
Result(ok, err, mc, ic) ==
    [success |-> ok, error |-> err, messages_scraped |-> mc, images_scraped |-> ic]

ErrorResult(err) == Result(FALSE, err, 0, 0)

\* _save_messages_batch: writes the batch as one file of the channel's
\* directory; an exception of the write is caught and logged, nothing is
\* returned and nothing is raised.
SaveMessagesBatch(ch, batch, ok) ==
    IF ok THEN [files EXCEPT ![ch] = Append(@, batch)] ELSE files

Flush(ch, batch, ok) ==
    /\ files' = SaveMessagesBatch(ch, batch, ok)
    /\ flushes' = Append(flushes, [n |-> Len(batch), ok |-> ok, batch |-> batch])

\* days_back as Python holds it: the int d is d / 1, the float hours_back / 24
\* the quotient of its operands.
Quotient(num, den) == [num |-> num, den |-> den]

\* timedelta(days=q), in hours.
TimeDelta(q) == (q.num * HoursPerDay) \div q.den

\* offset_date = datetime.now() - timedelta(days=days_back) if days_back > 0
\* else None
OffsetDate(days_back) ==
    IF days_back.num > 0 THEN Some(Today - TimeDelta(days_back)) ELSE None

\* scrape_all_channels(limit_per_channel, days_back) is entered: results = {},
\* offset_date is computed.
scrape_all_channels(limit_per_channel, days_back) ==
    /\ pc = "idle"
    /\ limit' = limit_per_channel
    /\ offset_date' = OffsetDate(days_back)
    /\ mode' = "all"
    /\ pc' = "connect"
    /\ UNCHANGED << channel, idx, results, reports, attempted, pauses, chanVars, storeVars,
                    gen, floods, faults, trace, metrics >>

\* scrape_all_channels is called.
ScrapeAllChannels ==
    \E lim \in Limits, days_back \in DaysBack :
        scrape_all_channels(lim, Quotient(days_back, 1))

\* incremental_scrape(hours_back) is called: it returns what
\* scrape_all_channels(limit_per_channel=500, days_back=hours_back/24) returns.
\* The call and its argument are kept in `out`.
IncrementalScrape ==
    \E hours_back \in HoursBack :
        /\ scrape_all_channels(IncrementalLimit, Quotient(hours_back, HoursPerDay))
        /\ out' = [op |-> "incremental_scrape", hours_back |-> hours_back]
        /\ UNCHANGED << registry, now, fs, saves, metaWrites, ops >>

\* scrape_single_channel(channel_username, limit, days_back) is called.
ScrapeSingleChannel ==
    /\ pc = "idle"
    /\ \E ch \in Channels, lim \in Limits, days_back \in DaysBack :
          /\ channel' = ch
          /\ limit' = lim
          /\ offset_date' = OffsetDate(Quotient(days_back, 1))
    /\ mode' = "single"
    /\ pc' = "connect"
    /\ UNCHANGED << idx, results, reports, attempted, pauses, chanVars, storeVars, gen,
                    floods, faults, trace, metrics >>

\* async with TelegramClientService() as client: connect() logs and re-raises
\* whatever the SDK raises, and the exception leaves the entry point.
Connect ==
    /\ pc = "connect"
    /\ \E ok \in BOOLEAN : pc' = IF ok THEN "loop" ELSE "raised"
    /\ UNCHANGED << mode, channel, limit, offset_date, idx, results, reports,
                    attempted, pauses, chanVars, storeVars, gen, floods, faults, trace,
                    metrics >>

\* Entry of _scrape_channel(client, ch, limit, offset_date).
EnterScrapeChannel(ch) ==
    /\ pc' = "channel"
    /\ channel' = ch
    /\ attempted' = Append(attempted, ch)
    /\ cpc' = "resolve"
    /\ messages' = << >>
    /\ message_count' = 0
    /\ image_count' = 0
    /\ chanResult' = None
    /\ flushes' = << >>
    /\ trace' = << >>
    /\ gen' = IdleGen

\* for channel in self.channels: call _scrape_channel(client, channel, ...).
CallScrapeChannel ==
    /\ mode = "all"
    /\ pc = "loop"
    /\ idx <= Len(channels)
    /\ EnterScrapeChannel(channels[idx])
    /\ UNCHANGED << mode, limit, offset_date, idx, results, reports, pauses,
                    storeVars, floods, faults, metrics >>

\* scrape_single_channel: return await self._scrape_channel(client, ...).
CallScrapeSingle ==
    /\ mode = "single"
    /\ pc = "loop"
    /\ EnterScrapeChannel(channel)
    /\ UNCHANGED << mode, limit, offset_date, idx, results, reports, pauses,
                    storeVars, floods, faults, metrics >>

\* What client.get_entity does for the channel's username: it returns the
\* entity, or raises because no such channel exists ("missing"), or raises
\* because the connection failed ("transport").
EntityOutcomes == {"ok", "missing", "transport"}

\* client.get_channel_info: the channel's info, or None when get_entity raised
\* anything at all (except Exception: log, return None).
get_channel_info(outcome) ==
    IF outcome = "ok" THEN Returned(Some("channel_info")) ELSE Returned(None)

\* The entry of the history for one get_channel_info call: what get_entity
\* did and what the call gave back to _scrape_channel.
LookupEvent(outcome, result) ==
    [kind |-> "lookup", id |-> 0, rec |-> None, dl |-> "na", failAt |-> "none",
     outcome |-> outcome, result |-> result]

\* _scrape_channel, first step: without info it returns an error result; an
\* exception of the lookup would reach its except clause.
GetChannelInfo ==
    /\ pc = "channel"
    /\ cpc = "resolve"
    /\ \E outcome \in EntityOutcomes :
          LET channel_info == get_channel_info(outcome)
          IN  /\ trace' = Append(trace, LookupEvent(outcome, channel_info))
              /\ IF channel_info.raised
                 THEN /\ cpc' = "returned"
                      /\ chanResult' = Some(ErrorResult("exception"))
                      /\ UNCHANGED gen
                 ELSE IF channel_info.value # None
                 THEN /\ cpc' = "stream"
                      /\ gen' = [IdleGen EXCEPT !.pc = "start"]
                      /\ UNCHANGED chanResult
                 ELSE /\ cpc' = "returned"
                      /\ chanResult' = Some(ErrorResult("Could not get channel info"))
                      /\ UNCHANGED gen
    /\ UNCHANGED << orchVars, messages, message_count, image_count, flushes,
                    storeVars, floods, faults, metrics >>

\* Body of the async for of _scrape_channel for one yielded record r: append,
\* count, and flush the batch when it holds BatchSize records.
ConsumeMessage(r) ==
    LET batch == Append(messages, r)
    IN  /\ message_count' = message_count + 1
        /\ image_count' = IF r.has_image THEN image_count + 1 ELSE image_count
        /\ IF Len(batch) >= BatchSize
           THEN /\ \E ok \in BOOLEAN : Flush(CurrentChannel, batch, ok)
                /\ messages' = << >>
           ELSE /\ messages' = batch
                /\ UNCHANGED << files, flushes >>

\* One iteration of the async for of scrape_messages: the SDK returns the
\* next message of the stream, _process_message turns it into a record, the
\* record is yielded to the consumer (or the message is skipped when
\* _process_message returned None), and the generator sleeps.
IterateMessage ==
    /\ InStream
    /\ gen.pc = "iter"
    /\ LET stream == IterMessages(CurrentChannel, limit, offset_date)
       IN  /\ gen.pos < Len(stream)
           /\ \E failAt \in FailPoints, dl \in DownloadOutcomes :
                 LET id == stream[gen.pos + 1]
                     r == ProcessMessage(CurrentChannel, id, failAt, dl)
                     seen == DownloadSeen(id, failAt, dl)
                     faulty == failAt # "none" \/ seen \in {"none", "raise"}
                     got == Event("returned", id, None, seen, failAt)
                 IN  /\ faulty => DisturbancesLeft > 0
                     /\ faults' = IF faulty THEN faults + 1 ELSE faults
                     /\ IF r = None
                        THEN /\ gen' = [gen EXCEPT !.pos = gen.pos + 1]
                             /\ trace' = trace \o << got, Event("dropped", id, None, seen, failAt) >>
                             /\ UNCHANGED << messages, message_count, image_count,
                                             files, flushes >>
                        ELSE /\ gen' = [gen EXCEPT
                                          !.pos = gen.pos + 1,
                                          !.message_count = gen.message_count + 1,
                                          !.image_count = IF r[1].has_image
                                                          THEN gen.image_count + 1
                                                          ELSE gen.image_count]
                             /\ trace' = trace \o << got, Event("record", id, r, seen, failAt) >>
                             /\ ConsumeMessage(r[1])
    /\ UNCHANGED << orchVars, cpc, chanResult, metaFiles, floods, metrics >>

\* The generator ended: save the remaining messages, if any.
FlushRemaining ==
    /\ InStream
    /\ gen.pc = "done"
    /\ IF messages # << >>
       THEN \E ok \in BOOLEAN : Flush(CurrentChannel, messages, ok)
       ELSE UNCHANGED << files, flushes >>
    /\ cpc' = "metadata"
    /\ UNCHANGED << orchVars, messages, message_count, image_count, chanResult,
                    metaFiles, gen, floods, faults, trace, metrics >>

\* metadata.json is written and the success result returned; a failing write
\* raises into the except clause of _scrape_channel.
SaveMetadata ==
    /\ pc = "channel"
    /\ cpc = "metadata"
    /\ \E ok \in BOOLEAN :
          IF ok
          THEN /\ metaFiles' = [metaFiles EXCEPT ![CurrentChannel] = @ + 1]
               /\ chanResult' = Some(Result(TRUE, "", message_count, image_count))
          ELSE /\ UNCHANGED metaFiles
               /\ chanResult' = Some(ErrorResult("exception"))
    /\ cpc' = "returned"
    /\ UNCHANGED << orchVars, messages, message_count, image_count, flushes,
                    files, gen, floods, faults, trace, metrics >>

\* The generator raised: except Exception of _scrape_channel logs it and
\* returns an error result.
OnStreamError ==
    /\ InStream
    /\ gen.pc = "raised"
    /\ chanResult' = Some(ErrorResult("exception"))
    /\ cpc' = "returned"
    /\ UNCHANGED << orchVars, messages, message_count, image_count, flushes,
                    storeVars, gen, floods, faults, trace, metrics >>

\* _scrape_channel has returned: its frame and its generator are gone.
LeaveScrapeChannel ==
    /\ cpc' = "none"
    /\ messages' = << >>
    /\ message_count' = 0
    /\ image_count' = 0
    /\ chanResult' = None
    /\ flushes' = << >>
    /\ trace' = << >>
    /\ gen' = IdleGen

\* Mutant of RecordResult: the loop is left after a channel that failed.
RecordResult_StopOnError ==
    /\ mode = "all"
    /\ pc = "channel"
    /\ cpc = "returned"
    /\ results' = [results EXCEPT ![channel] = chanResult]
    /\ pauses' = Append(pauses, channel)
    /\ idx' = IF chanResult[1].success THEN idx + 1 ELSE Len(channels) + 1
    /\ pc' = "loop"
    /\ LeaveScrapeChannel
    /\ UNCHANGED << mode, channel, limit, offset_date, reports, attempted,
                    storeVars, floods, faults, metrics >>

\* Mutant of RecordResult: the pause is left out after a channel that failed.
RecordResult_NoPauseAfterError ==
    /\ mode = "all"
    /\ pc = "channel"
    /\ cpc = "returned"
    /\ results' = [results EXCEPT ![channel] = chanResult]
    /\ pauses' = IF chanResult[1].success THEN Append(pauses, channel) ELSE pauses
    /\ idx' = idx + 1
    /\ pc' = "loop"
    /\ LeaveScrapeChannel
    /\ UNCHANGED << mode, channel, limit, offset_date, reports, attempted,
                    storeVars, floods, faults, metrics >>

\* Rest of the loop body once _scrape_channel has returned (it returns an
\* error result instead of raising): results[channel] = channel_results, then
\* await asyncio.sleep(2), then the next channel.
RecordResult ==
    /\ mode = "all"
    /\ pc = "channel"
    /\ cpc = "returned"
    /\ results' = [results EXCEPT ![channel] = chanResult]
    /\ pauses' = Append(pauses, channel)
    /\ idx' = idx + 1
    /\ pc' = "loop"
    /\ LeaveScrapeChannel
    /\ UNCHANGED << mode, channel, limit, offset_date, reports, attempted,
                    storeVars, floods, faults, metrics >>

\* scrape_single_channel: _scrape_channel returned its result (kept here as the
\* channel's entry of results), the async with block is left.
ReturnSingle ==
    /\ mode = "single"
    /\ pc = "channel"
    /\ cpc = "returned"
    /\ pc' = "disconnect"
    /\ results' = [results EXCEPT ![channel] = chanResult]
    /\ LeaveScrapeChannel
    /\ UNCHANGED << mode, channel, limit, offset_date, idx, reports, attempted, pauses,
                    storeVars, floods, faults, metrics >>

\* The async with block is left: __aexit__ disconnects the client; what
\* disconnect raises leaves the entry point.
Disconnect ==
    /\ \/ mode = "all" /\ pc = "loop" /\ idx > Len(channels)
       \/ mode = "single" /\ pc = "disconnect"
    /\ \E ok \in BOOLEAN :
          pc' = IF ~ok THEN "raised" ELSE IF mode = "all" THEN "report" ELSE "returned"
    /\ UNCHANGED << mode, channel, limit, offset_date, idx, results, reports,
                    attempted, pauses, chanVars, storeVars, gen, floods, faults, trace,
                    metrics >>

\* Whether the result of channel k of the list counts as successful:
\* result.get("success").
Succeeded(res, k) == res[channels[k]] # None /\ res[channels[k]][1].success

\* total_messages / total_images over the first k channels of the results.
RECURSIVE TotalMessages(_, _)
TotalMessages(res, k) ==
    IF k = 0 THEN 0
    ELSE TotalMessages(res, k - 1)
         + (IF Succeeded(res, k) THEN res[channels[k]][1].messages_scraped ELSE 0)

RECURSIVE TotalImages(_, _)
TotalImages(res, k) ==
    IF k = 0 THEN 0
    ELSE TotalImages(res, k - 1)
         + (IF Succeeded(res, k) THEN res[channels[k]][1].images_scraped ELSE 0)

\* The report _generate_scraping_report builds from the results dict.
BuildReport(res) ==
    LET have == {k \in 1..Len(channels) : res[channels[k]] # None}
        good == {k \in have : Succeeded(res, k)}
    IN  [total_channels |-> Len(channels),
         successful_channels |-> Cardinality(good),
         failed_channels |-> Cardinality(have \ good),
         total_messages |-> TotalMessages(res, Len(channels)),
         total_images |-> TotalImages(res, Len(channels)),
         channel_results |-> res]

\* Mutant of GenerateScrapingReport: no report is written when no channel
\* succeeded.
GenerateScrapingReport_SkipWhenAllFailed ==
    /\ pc = "report"
    /\ \E ok \in BOOLEAN :
          IF ok
          THEN /\ reports' = IF BuildReport(results).successful_channels = 0
                             THEN reports
                             ELSE Append(reports, BuildReport(results))
               /\ pc' = "returned"
          ELSE /\ UNCHANGED reports
               /\ pc' = "raised"
    /\ UNCHANGED << mode, channel, limit, offset_date, idx, results, attempted, pauses,
                    chanVars, storeVars, gen, floods, faults, trace, metrics >>

\* _generate_scraping_report writes the report file (a failing write raises),
\* then scrape_all_channels returns results.
GenerateScrapingReport ==
    /\ pc = "report"
    /\ \E ok \in BOOLEAN :
          IF ok
          THEN /\ reports' = Append(reports, BuildReport(results))
               /\ pc' = "returned"
          ELSE /\ UNCHANGED reports
               /\ pc' = "raised"
    /\ UNCHANGED << mode, channel, limit, offset_date, idx, results, attempted, pauses,
                    chanVars, storeVars, gen, floods, faults, trace, metrics >>

\* ------------------------------------------------------------ the registry
\* One ChannelConfig of channel_config.py, with the fields the accessors and
\* the validation read (name, description and keywords are only copied).
ChannelConfig(username, category, priority, enabled, scraping_limit, scraping_interval_hours, image_download, document_download) ==
    [username |-> username, category |-> category, priority |-> priority,
     enabled |-> enabled, scraping_limit |-> scraping_limit,
     scraping_interval_hours |-> scraping_interval_hours,
     image_download |-> image_download, document_download |-> document_download]

\* ETHIOPIAN_MEDICAL_CHANNELS as shipped: every channel keeps enabled = True
\* and the download defaults.
ETHIOPIAN_MEDICAL_CHANNELS ==
    << ChannelConfig("chemed", "pharmaceutical", 1, TRUE, 2000, 12, TRUE, TRUE),
       ChannelConfig("lobelia4cosmetics", "cosmetics", 2, TRUE, 1500, 24, TRUE, TRUE),
       ChannelConfig("tikvahpharma", "pharmaceutical", 1, TRUE, 2000, 12, TRUE, TRUE) >>

\* The registries an operator can configure: `enabled` is a plain attribute of
\* each ChannelConfig, set per channel.
Registries ==
    { [i \in 1..Len(ETHIOPIAN_MEDICAL_CHANNELS) |->
          [ETHIOPIAN_MEDICAL_CHANNELS[i] EXCEPT !.enabled = en[i]]] :
      en \in [1..Len(ETHIOPIAN_MEDICAL_CHANNELS) -> BOOLEAN] }

\* The values an operator can write into the fields of a ChannelConfig: the
\* dataclass checks nothing, so limits, intervals and priorities may be out of
\* range and two entries may carry the same username.
ConfigUsernames == {"chemed", "tikvahpharma"}
Categories == {"pharmaceutical", "cosmetics"}
Priorities == {0, 1, 11}
ScrapingLimits == {0, 2000}
ScrapingIntervals == {0, 12}
ChannelConfigs ==
    { ChannelConfig(u, c, p, e, l, h, im, doc) :
        u \in ConfigUsernames, c \in Categories, p \in Priorities, e \in BOOLEAN,
        l \in ScrapingLimits, h \in ScrapingIntervals, im \in BOOLEAN,
        doc \in BOOLEAN }

\* The channel lists an operator can write: no entry, one entry of any kind,
\* or two entries. The two-entry lists vary what one entry can change for the
\* other (username, category, priority, enabled flag, limit, interval) and
\* keep the download defaults.
RegistrySizes == {0, 1}
Configs ==
    UNION { [1..n -> ChannelConfigs] : n \in RegistrySizes }
    \cup [1..2 -> {c \in ChannelConfigs : c.image_download /\ c.document_download}]

\* get_enabled_channels()
get_enabled_channels(reg) == SelectSeq(reg, LAMBDA c : c.enabled)

\* get_channels_by_category(category)
get_channels_by_category(reg, category) ==
    SelectSeq(get_enabled_channels(reg), LAMBDA c : c.category = category)

\* get_channels_by_priority(min_priority)
get_channels_by_priority(reg, min_priority) ==
    SelectSeq(get_enabled_channels(reg), LAMBDA c : c.priority <= min_priority)

\* get_channel_by_username(username): the first entry of the whole list with
\* that username, else None.
get_channel_by_username(reg, username) ==
    IF \E i \in 1..Len(reg) : reg[i].username = username
    THEN Some(reg[CHOOSE i \in 1..Len(reg) :
                    /\ reg[i].username = username
                    /\ \A j \in 1..(i - 1) : reg[j].username # username])
    ELSE None

\* get_channel_usernames()
get_channel_usernames(reg) ==
    [i \in 1..Len(get_enabled_channels(reg)) |-> get_enabled_channels(reg)[i].username]

\* get_channels_for_image_analysis()
get_channels_for_image_analysis(reg) ==
    SelectSeq(get_enabled_channels(reg), LAMBDA c : c.image_download)

\* get_channels_for_document_analysis()
get_channels_for_document_analysis(reg) ==
    SelectSeq(get_enabled_channels(reg), LAMBDA c : c.document_download)

\* The entry a dict built by one pass over `list` holds under `username`: a
\* later entry with the same key overwrites an earlier one.
LastWithUsername(list, username) ==
    list[CHOOSE i \in 1..Len(list) :
            /\ list[i].username = username
            /\ \A j \in (i + 1)..Len(list) : list[j].username # username]

\* get_scraping_schedule(): a dict keyed by username, over the enabled channels.
ScheduleEntry(c) ==
    [category |-> c.category, priority |-> c.priority,
     scraping_limit |-> c.scraping_limit,
     scraping_interval_hours |-> c.scraping_interval_hours,
     image_download |-> c.image_download, document_download |-> c.document_download]

get_scraping_schedule(reg) ==
    [u \in {get_enabled_channels(reg)[i].username :
                i \in 1..Len(get_enabled_channels(reg))} |->
        ScheduleEntry(LastWithUsername(get_enabled_channels(reg), u))]

\* get_channel_metadata(): a dict keyed by username, over the whole list.
MetadataEntry(c) ==
    [category |-> c.category, priority |-> c.priority, enabled |-> c.enabled,
     scraping_config |-> [limit |-> c.scraping_limit,
                          interval_hours |-> c.scraping_interval_hours],
     download_config |-> [images |-> c.image_download,
                          documents |-> c.document_download]]

get_channel_metadata(reg) ==
    [u \in {reg[i].username : i \in 1..Len(reg)} |->
        MetadataEntry(LastWithUsername(reg, u))]

\* validate_channel_configs(): one pass over the whole list, `usernames` being
\* the set of usernames seen so far. An error or a warning is kept as its
\* kind and the username it names.
Finding(kind, username) == [kind |-> kind, username |-> username]

ChannelErrors_NegativeOnly(c, usernames) ==
    (IF c.username \in usernames
     THEN << Finding("duplicate_username", c.username) >> ELSE << >>)
    \o (IF c.scraping_limit < 0
        THEN << Finding("invalid_scraping_limit", c.username) >> ELSE << >>)
    \o (IF c.scraping_interval_hours < 0
        THEN << Finding("invalid_scraping_interval", c.username) >> ELSE << >>)

ChannelErrors(c, usernames) ==
    (IF c.username \in usernames
     THEN << Finding("duplicate_username", c.username) >> ELSE << >>)
    \o (IF c.scraping_limit <= 0
        THEN << Finding("invalid_scraping_limit", c.username) >> ELSE << >>)
    \o (IF c.scraping_interval_hours <= 0
        THEN << Finding("invalid_scraping_interval", c.username) >> ELSE << >>)

ChannelWarnings(c) ==
    IF c.priority < 1 \/ c.priority > 10
    THEN << Finding("priority", c.username) >> ELSE << >>

RECURSIVE ValidateChannels(_, _, _, _)
ValidateChannels(reg, i, usernames, acc) ==
    IF i > Len(reg) THEN acc
    ELSE ValidateChannels(reg, i + 1, usernames \cup {reg[i].username},
             [acc EXCEPT !.categories = @ \cup {reg[i].category},
                         !.priorities = @ \cup {reg[i].priority},
                         !.errors = @ \o ChannelErrors(reg[i], usernames),
                         !.warnings = @ \o ChannelWarnings(reg[i])])

validate_channel_configs(reg) ==
    ValidateChannels(reg, 1, {},
        [total_channels |-> Len(reg),
         enabled_channels |-> Len(get_enabled_channels(reg)),
         categories |-> {}, priorities |-> {},
         errors |-> << >>, warnings |-> << >>])

\* ----------------------------------------------------------- the data lake
\* bounds of the data lake model
\* calls that write or remove files (saves, scraper runs, cleanups)
MaxOps == 2
\* the last second of the clock
MaxClock == 2

\* Seconds per day, at the scale of the model: two seconds make a day, so that
\* a timestamp has a date and a time of day.
DayLen == 2

\* strftime("%Y-%m-%d"): the date of a timestamp, without its time of day.
DateStr(t) == t \div DayLen
\* strptime(date_str, "%Y-%m-%d"): midnight of that date.
ParseDate(date_str) == date_str * DayLen
\* strftime("%Y%m%d_%H%M%S"): the timestamp to the second.
Stamp(t) == t

Days == 0..DateStr(MaxClock)
Times == 0..MaxClock

\* The name of an entry of raw/telegram_messages that strptime rejects (it
\* sorts after every date, as a name starting with a letter does).
NotADate == 99
DirNames == Days \cup {NotADate}

\* The channels the data lake is called with.
LakeChannels == {channels[1], channels[2]}

\* A NormalizedMessage as the store sees it; text is its sequence of characters.
Msg(id, date, text, views) ==
    [message_id |-> id, channel_username |-> channels[1], date |-> date,
     text |-> text, views |-> views]

\* Messages saved: M1 and M1b agree on (message_id, date, text) and differ in
\* another field; M2 is a later message.
M1 == Msg(1, 0, << "a" >>, 0)
M1b == Msg(1, 0, << "a" >>, 7)
M2 == Msg(2, 1, << "b" >>, 0)

\* The batches save_messages is called with.
Batches == { << M1 >>, << M1b >>, << M1, M2 >> }

\* A JSON value that is not an object, as an element of a list.
JsonScalar == [json_scalar |-> TRUE]
IsObject(x) == "json_scalar" \notin DOMAIN x

\* str() of a small number, as its sequence of characters.
Str(n) == << << "0", "1", "2", "3", "4", "5", "6", "7", "8", "9" >>[n + 1] >>

\* _generate_message_hash: md5 of f"{message_id}{date}{text}"; the digest is
\* modelled by the string it is taken of (no md5 collisions).
GenerateMessageHash(m) == Str(m.message_id) \o Str(m.date) \o m.text

\* File names and paths under raw/telegram_messages/<dir>/<channel>/.
FileName(stem, ts, n, ext) == [stem |-> stem, ts |-> ts, n |-> n, ext |-> ext]
Path(dir, ch, name) == [dir |-> dir, channel |-> ch, name |-> name]

\* f"messages_{timestamp}_{len(messages)}.json"
BatchFileName(t, n) == FileName("messages", Stamp(t), n, "json")
\* file_path.with_suffix('.json.gz')
WithSuffixGz(p) == [p EXCEPT !.name.ext = "json.gz"]

\* File contents. json.dump of a list / of an object, and the gzip encoding
\* of a dumped text; a file can also be unreadable (open raises), hold text
\* that is not JSON, or hold a JSON value that is not a list.
JsonDump(items) == [kind |-> "list", items |-> items]
JsonDumpObject(obj) == [kind |-> "object", items |-> << obj >>]
Gzip(c) == [kind |-> "gzip", items |-> << c >>]
Gunzip(c) == c.items[1]
Damaged(kind) == [kind |-> kind, items |-> << >>]

\* The files of the tree, as a function from the paths that exist.
WriteFile(f, p, c) == [q \in DOMAIN f \cup {p} |-> IF q = p THEN c ELSE f[q]]
RemoveFiles(f, ps) == [q \in DOMAIN f \ ps |-> f[q]]

\* channel_dir.glob("messages_*.json") of <dir>/<channel>: the plain batch
\* files (the .json.gz copies and the metadata files do not match).
GlobMessages(f, dir, ch) ==
    {p \in DOMAIN f : /\ p.dir = dir
                      /\ p.channel = ch
                      /\ p.name.stem = "messages"
                      /\ p.name.ext = "json"}

\* raw_dir.glob("telegram_messages/*"): the entries of the tree.
GlobDirs(f) == {p.dir : p \in DOMAIN f}

\* Order of file names within one directory (sorted() of the paths).
NameBefore(p, q) ==
    \/ p.name.ts < q.name.ts
    \/ p.name.ts = q.name.ts /\ p.name.n < q.name.n

\* sorted(paths) of the files of one directory.
RECURSIVE SortedFiles(_)
SortedFiles(ps) ==
    IF ps = {} THEN << >>
    ELSE LET first == CHOOSE p \in ps : \A q \in ps \ {p} : NameBefore(p, q)
         IN  << first >> \o SortedFiles(ps \ {first})

\* sorted(names) of a set of directory names.
RECURSIVE SortedDirs(_)
SortedDirs(ds) ==
    IF ds = {} THEN << >>
    ELSE LET first == CHOOSE d \in ds : \A e \in ds : d <= e
         IN  << first >> \o SortedDirs(ds \ {first})

Reverse(s) == [i \in 1..Len(s) |-> s[Len(s) + 1 - i]]

LakeInit ==
    /\ now = 0
    /\ fs = [p \in {} |-> Damaged("unreadable")]
    /\ saves = << >>
    /\ metaWrites = << >>
    /\ out = [op |-> "none"]
    /\ ops = 0

Init ==
    /\ ScraperInit
    /\ registry = ETHIOPIAN_MEDICAL_CHANNELS
    /\ LakeInit

\* The clock advances by one second.
Tick ==
    /\ now < MaxClock
    /\ now' = now + 1
    /\ UNCHANGED << fs, saves, metaWrites, out, ops >>

\* message.copy() with message["_metadata"] set.
WithMetadata(m, meta) ==
    [k \in DOMAIN m \cup {"_metadata"} |-> IF k = "_metadata" THEN meta ELSE m[k]]

\* save_messages, lines 73-84: the enriched messages of a batch.
EnrichMessages(ch, batch, date_str, file_path, t) ==
    [i \in 1..Len(batch) |->
        WithMetadata(batch[i],
                     [scraped_at |-> t,
                      channel |-> ch,
                      partition_date |-> date_str,
                      file_path |-> file_path,
                      message_hash |-> GenerateMessageHash(batch[i])])]

\* Dates a caller passes as `date`: midnight of a day, or None (today).
DateArgs == {None} \cup {Some(ParseDate(d)) : d \in Days}

\* What the two writes of save_messages do: both succeed, gzip.open raises
\* (nothing is written), or the gzip copy is written and open() of the plain
\* file raises.
WriteOutcomes == {"ok", "gz_fail", "plain_fail"}

\* One entry of the history of batch writes.
SaveEvent(writer, ch, dir, batch, path, wrote) ==
    [writer |-> writer, channel |-> ch, dir |-> dir, batch |-> batch,
     path |-> path, wrote |-> wrote, at |-> now]

\* DataLakeManager.save_messages(channel, messages, date)
SaveMessages ==
    /\ ops < MaxOps
    /\ \E ch \in LakeChannels, batch \in Batches, date \in DateArgs,
          outcome \in WriteOutcomes :
          LET date_str == DateStr(IF date = None THEN now ELSE date[1])
              file_path == Path(date_str, ch, BatchFileName(now, Len(batch)))
              compressed_path == WithSuffixGz(file_path)
              text == JsonDump(EnrichMessages(ch, batch, date_str, file_path, now))
          IN  /\ fs' = CASE outcome = "gz_fail" -> fs
                         [] outcome = "plain_fail" ->
                                WriteFile(fs, compressed_path, Gzip(text))
                         [] OTHER ->
                                WriteFile(WriteFile(fs, compressed_path, Gzip(text)),
                                          file_path, text)
              /\ saves' = Append(saves, SaveEvent("store", ch, date_str, batch,
                                                  file_path, outcome = "ok"))
              /\ out' = [op |-> "save_messages",
                         result |-> IF outcome = "ok" THEN Returned(file_path)
                                    ELSE Raised]
    /\ ops' = ops + 1
    /\ UNCHANGED << now, metaWrites >>

\* One entry of the history of metadata writes.
MetaEvent(path, content) == [path |-> path, content |-> content]

\* The metadata dicts a caller passes to save_channel_metadata.
Metadatas == {"info_1", "info_2"}

\* DataLakeManager.save_channel_metadata(channel, metadata, date)
SaveChannelMetadata ==
    /\ ops < MaxOps
    /\ \E ch \in LakeChannels, metadata \in Metadatas, date \in DateArgs,
          ok \in BOOLEAN :
          LET date_str == DateStr(IF date = None THEN now ELSE date[1])
              metadata_file == Path(date_str, ch,
                                    FileName("channel_metadata", 0, 0, "json"))
              enriched == [metadata |-> metadata,
                           _metadata |-> [saved_at |-> now, channel |-> ch,
                                          partition_date |-> date_str]]
          IN  /\ fs' = IF ok THEN WriteFile(fs, metadata_file, JsonDumpObject(enriched))
                       ELSE fs
              /\ metaWrites' = IF ok
                               THEN Append(metaWrites,
                                           MetaEvent(metadata_file,
                                                     JsonDumpObject(enriched)))
                               ELSE metaWrites
              /\ out' = [op |-> "save_channel_metadata",
                         result |-> IF ok THEN Returned(metadata_file) ELSE Raised]
    /\ ops' = ops + 1
    /\ UNCHANGED << now, saves >>

\* The records a scraper run delivers in the data lake model.
ScrapedBatches == { << >>, << M1 >>, << M2 >> }

\* The files one run of TelegramScraper._scrape_channel writes once the channel
\* is resolved and the message stream has ended, having delivered the records
\* recs (fewer than BatchSize): the remaining messages as one batch file
\* (_save_messages_batch, whose write error is caught and logged) and then
\* metadata.json, both in the partition of today.
ScrapeChannelWrites ==
    /\ ops < MaxOps
    /\ \E ch \in LakeChannels, recs \in ScrapedBatches, batch_ok \in BOOLEAN,
          meta_ok \in BOOLEAN :
          LET date_str == DateStr(now)
              file_path == Path(date_str, ch, BatchFileName(now, Len(recs)))
              metadata_file == Path(date_str, ch, FileName("metadata", 0, 0, "json"))
              metadata == [channel_info |-> ch,
                           scraping_info |-> [scraped_at |-> now,
                                              messages_scraped |-> Len(recs)]]
              fs1 == IF recs # << >> /\ batch_ok
                     THEN WriteFile(fs, file_path, JsonDump(recs)) ELSE fs
          IN  /\ fs' = IF meta_ok
                       THEN WriteFile(fs1, metadata_file, JsonDumpObject(metadata))
                       ELSE fs1
              /\ saves' = IF recs # << >>
                          THEN Append(saves, SaveEvent("scraper", ch, date_str, recs,
                                                       file_path, batch_ok))
                          ELSE saves
              /\ metaWrites' = IF meta_ok
                               THEN Append(metaWrites,
                                           MetaEvent(metadata_file,
                                                     JsonDumpObject(metadata)))
                               ELSE metaWrites
              /\ out' = [op |-> "scrape_channel",
                         result |-> Returned(meta_ok)]
    /\ ops' = ops + 1
    /\ UNCHANGED now

\* json.load of a batch file, as get_messages_for_date_range and
\* get_latest_messages use it: the elements messages.extend() adds. A file
\* that cannot be opened or parsed raises, which is caught and logged, and adds
\* nothing; a JSON value that is not a list (here an empty object) adds nothing.
LoadMessages(f, p) == IF f[p].kind = "list" THEN f[p].items ELSE << >>

RECURSIVE LoadAll(_, _)
LoadAll(f, paths) ==
    IF paths = << >> THEN << >>
    ELSE LoadMessages(f, Head(paths)) \o LoadAll(f, Tail(paths))

\* The while loop of get_messages_for_date_range from current_date on.
RECURSIVE ScanDateRange(_, _, _, _)
ScanDateRange(f, ch, current_date, end_date) ==
    IF current_date <= end_date
    THEN LoadAll(f, SortedFiles(GlobMessages(f, DateStr(current_date), ch)))
         \o ScanDateRange(f, ch, current_date + DayLen, end_date)
    ELSE << >>

\* get_messages_for_date_range(channel, start_date, end_date)
GetMessagesForDateRange(f, ch, start_date, end_date) ==
    ScanDateRange(f, ch, start_date, end_date)

\* The call of get_messages_for_date_range.
CallGetMessagesForDateRange ==
    /\ \E ch \in LakeChannels, start_date \in Times, end_date \in Times :
          out' = [op |-> "get_messages_for_date_range",
                  channel |-> ch, start_date |-> start_date, end_date |-> end_date,
                  result |-> Returned(GetMessagesForDateRange(fs, ch, start_date,
                                                              end_date))]
    /\ UNCHANGED << now, fs, saves, metaWrites, ops >>

\* The files get_latest_messages collects: date directories from the last name
\* to the first, the batch files of each from the last name to the first.
RECURSIVE LatestFiles(_, _, _)
LatestFiles(f, ch, dirs) ==
    IF dirs = << >> THEN << >>
    ELSE Reverse(SortedFiles(GlobMessages(f, Head(dirs), ch)))
         \o LatestFiles(f, ch, Tail(dirs))

Take(s, n) == IF Len(s) <= n THEN s ELSE SubSeq(s, 1, n)

\* list.sort(key=date, reverse=True): stable, greatest date first.
RECURSIVE InsertByDateDesc(_, _)
InsertByDateDesc(sorted, m) ==
    IF sorted = << >> THEN << m >>
    ELSE IF Head(sorted).date >= m.date
         THEN << Head(sorted) >> \o InsertByDateDesc(Tail(sorted), m)
         ELSE << m >> \o sorted

RECURSIVE SortByDateDesc(_)
SortByDateDesc(s) ==
    IF s = << >> THEN << >>
    ELSE InsertByDateDesc(SortByDateDesc(SubSeq(s, 1, Len(s) - 1)), s[Len(s)])

\* get_latest_messages(channel, limit): the sort key x.get('date', '') raises
\* on an element that is not an object, outside any try.
GetLatestMessages(f, ch, lim) ==
    LET message_files == LatestFiles(f, ch, Reverse(SortedDirs(GlobDirs(f))))
        loaded == LoadAll(f, Take(message_files, lim))
    IN  IF \E i \in 1..Len(loaded) : ~IsObject(loaded[i])
        THEN Raised
        ELSE Returned(Take(SortByDateDesc(loaded), lim))

\* limit values a caller passes to get_latest_messages (100 is the default).
LatestLimits == {0, 1, 100}

\* The call of get_latest_messages.
CallGetLatestMessages ==
    /\ \E ch \in LakeChannels, lim \in LatestLimits :
          out' = [op |-> "get_latest_messages", channel |-> ch, limit |-> lim,
                  result |-> GetLatestMessages(fs, ch, lim)]
    /\ UNCHANGED << now, fs, saves, metaWrites, ops >>

\* validate_data_integrity: the report and the hashes seen so far; exc is set
\* while an exception is propagating.
EmptyReport(ch) ==
    [channel |-> ch, total_files |-> 0, valid_files |-> 0, invalid_files |-> 0,
     total_messages |-> 0, duplicate_messages |-> 0, missing_fields |-> << >>,
     errors |-> << >>, hashes |-> {}, exc |-> FALSE]

required_fields == << "message_id", "channel_username", "date", "text" >>

\* The for loop over the messages of one file, from element i on: an element
\* that is not an object raises at message.get.
RECURSIVE CheckMessages(_, _, _)
CheckMessages(acc, items, i) ==
    IF i > Len(items) THEN acc
    ELSE IF ~IsObject(items[i]) THEN [acc EXCEPT !.exc = TRUE]
    ELSE LET m == items[i]
             message_hash == IF "_metadata" \in DOMAIN m
                             THEN Some(m._metadata.message_hash) ELSE None
             a1 == IF message_hash = None THEN acc
                   ELSE IF message_hash[1] \in acc.hashes
                        THEN [acc EXCEPT !.duplicate_messages = @ + 1]
                        ELSE [acc EXCEPT !.hashes = @ \cup {message_hash[1]}]
             a2 == [a1 EXCEPT !.missing_fields =
                        @ \o SelectSeq(required_fields, LAMBDA k : k \notin DOMAIN m)]
         IN  CheckMessages(a2, items, i + 1)

\* The body of the try of validate_data_integrity for the file p.
CheckFile(acc, f, p) ==
    CASE f[p].kind \in {"unreadable", "not_json"} -> [acc EXCEPT !.exc = TRUE]
      [] f[p].kind = "list" ->
            CheckMessages([acc EXCEPT !.valid_files = @ + 1,
                                      !.total_messages = @ + Len(f[p].items)],
                          f[p].items, 1)
      [] OTHER -> [acc EXCEPT !.errors = Append(@, [file |-> p, what |-> "format"]),
                              !.invalid_files = @ + 1]

\* Mutant of ValidateFile: an exception of the try body is not caught.
ValidateFile_NoCatch(acc, f, p) ==
    CheckFile([acc EXCEPT !.total_files = @ + 1], f, p)

\* One iteration of the loop over the files: count the file, run the try body,
\* and on an exception record the file as an error.
ValidateFile(acc, f, p) ==
    LET r == CheckFile([acc EXCEPT !.total_files = @ + 1], f, p)
    IN  IF r.exc
        THEN [r EXCEPT !.exc = FALSE,
                       !.errors = Append(@, [file |-> p, what |-> "reading"]),
                       !.invalid_files = @ + 1]
        ELSE r

\* The loop over the files of the channel, in the order paths; a propagating
\* exception ends it.
RECURSIVE ValidateFiles(_, _, _)
ValidateFiles(acc, f, paths) ==
    IF paths = << >> \/ acc.exc THEN acc
    ELSE ValidateFiles(ValidateFile(acc, f, Head(paths)), f, Tail(paths))

\* The batch files of a channel in every entry of the tree.
RECURSIVE ChannelFiles(_, _, _)
ChannelFiles(f, ch, dirs) ==
    IF dirs = << >> THEN << >>
    ELSE SortedFiles(GlobMessages(f, Head(dirs), ch)) \o ChannelFiles(f, ch, Tail(dirs))

\* validate_data_integrity(channel)
ValidateDataIntegrity(f, ch) ==
    LET rep == ValidateFiles(EmptyReport(ch), f,
                             ChannelFiles(f, ch, SortedDirs(GlobDirs(f))))
    IN  IF rep.exc THEN Raised ELSE Returned(rep)

\* The call of validate_data_integrity.
CallValidateDataIntegrity ==
    /\ \E ch \in LakeChannels :
          out' = [op |-> "validate_data_integrity", channel |-> ch,
                  result |-> ValidateDataIntegrity(fs, ch)]
    /\ UNCHANGED << now, fs, saves, metaWrites, ops >>

\* days_to_keep values a caller passes (at the scale of the model).
DaysToKeep == {0, 1}

\* Mutant of OldDirs: the entry dated at the cutoff is removed as well.
OldDirs_UpToCutoff(f, cutoff_date) ==
    {d \in GlobDirs(f) : d # NotADate /\ ParseDate(d) <= cutoff_date}

\* The entries cleanup_old_data decides to remove: those whose name parses as
\* a date (strptime raises on the others, which is caught) that lies before
\* the cutoff.
OldDirs(f, cutoff_date) ==
    {d \in GlobDirs(f) : d # NotADate /\ ParseDate(d) < cutoff_date}

\* cleanup_old_data(days_to_keep): shutil.rmtree of every old entry; an rmtree
\* that raises has removed some of the entry's files and left the others
\* (kept), and the loop goes on with the next entry.
CleanupOldData ==
    /\ ops < MaxOps
    /\ \E days_to_keep \in DaysToKeep :
          LET cutoff_date == now - days_to_keep * DayLen
              doomed == {p \in DOMAIN fs : p.dir \in OldDirs(fs, cutoff_date)}
          IN  \E kept \in SUBSET doomed :
                 /\ fs' = RemoveFiles(fs, doomed \ kept)
                 /\ out' = [op |-> "cleanup_old_data", days_to_keep |-> days_to_keep,
                            before |-> fs, failed |-> {p.dir : p \in kept},
                            result |-> Returned(0)]
    /\ ops' = ops + 1
    /\ UNCHANGED << now, saves, metaWrites >>


Next ==
    \/ ScrapeAllChannels /\ UNCHANGED << registry, lakeVars >>
    \/ ScrapeSingleChannel /\ UNCHANGED << registry, lakeVars >>
    \/ Connect /\ UNCHANGED << registry, lakeVars >>
    \/ CallScrapeChannel /\ UNCHANGED << registry, lakeVars >>
    \/ CallScrapeSingle /\ UNCHANGED << registry, lakeVars >>
    \/ GetChannelInfo /\ UNCHANGED << registry, lakeVars >>
    \/ GetEntity /\ UNCHANGED << registry, lakeVars >>
    \/ IterateMessage /\ UNCHANGED << registry, lakeVars >>
    \/ IterEnd /\ UNCHANGED << registry, lakeVars >>
    \/ RaiseFloodWait /\ UNCHANGED << registry, lakeVars >>
    \/ OnFloodWait /\ UNCHANGED << registry, lakeVars >>
    \/ RaiseError /\ UNCHANGED << registry, lakeVars >>
    \/ FlushRemaining /\ UNCHANGED << registry, lakeVars >>
    \/ SaveMetadata /\ UNCHANGED << registry, lakeVars >>
    \/ OnStreamError /\ UNCHANGED << registry, lakeVars >>
    \/ RecordResult /\ UNCHANGED << registry, lakeVars >>
    \/ ReturnSingle /\ UNCHANGED << registry, lakeVars >>
    \/ Disconnect /\ UNCHANGED << registry, lakeVars >>
    \/ GenerateScrapingReport /\ UNCHANGED << registry, lakeVars >>

Spec == Init /\ [][Next]_vars

\* The scraper under any registry an operator can configure.
RegistryInit ==
    /\ ScraperInit
    /\ registry \in Registries
    /\ LakeInit

RegistrySpec == RegistryInit /\ [][Next]_vars

\* The scraper entered through incremental_scrape.
IncrementalNext ==
    \/ IncrementalScrape
    \/ Connect /\ UNCHANGED << registry, lakeVars >>
    \/ CallScrapeChannel /\ UNCHANGED << registry, lakeVars >>
    \/ GetChannelInfo /\ UNCHANGED << registry, lakeVars >>
    \/ GetEntity /\ UNCHANGED << registry, lakeVars >>
    \/ IterateMessage /\ UNCHANGED << registry, lakeVars >>
    \/ IterEnd /\ UNCHANGED << registry, lakeVars >>
    \/ RaiseFloodWait /\ UNCHANGED << registry, lakeVars >>
    \/ OnFloodWait /\ UNCHANGED << registry, lakeVars >>
    \/ RaiseError /\ UNCHANGED << registry, lakeVars >>
    \/ FlushRemaining /\ UNCHANGED << registry, lakeVars >>
    \/ SaveMetadata /\ UNCHANGED << registry, lakeVars >>
    \/ OnStreamError /\ UNCHANGED << registry, lakeVars >>
    \/ RecordResult /\ UNCHANGED << registry, lakeVars >>
    \/ Disconnect /\ UNCHANGED << registry, lakeVars >>
    \/ GenerateScrapingReport /\ UNCHANGED << registry, lakeVars >>

IncrementalSpec == Init /\ [][IncrementalNext]_vars

\* The writers of the data lake, from an empty lake: save_messages,
\* save_channel_metadata, the file writes of scraper runs, and the clock.
LakeNext ==
    \/ Tick /\ UNCHANGED << scraperVars, registry >>
    \/ SaveMessages /\ UNCHANGED << scraperVars, registry >>
    \/ SaveChannelMetadata /\ UNCHANGED << scraperVars, registry >>
    \/ ScrapeChannelWrites /\ UNCHANGED << scraperVars, registry >>

LakeSpec == Init /\ [][LakeNext]_vars

\* The trees the readers and the cleanup are run on: each of four places holds
\* no batch, a batch as save_messages wrote it (both copies), or a plain file
\* that is damaged: unreadable, not JSON, a JSON value that is not a list, or a
\* list with an element that is not an object.
TreePlace(dir, ch, t, batch, kinds) ==
    [path |-> Path(dir, ch, BatchFileName(t, Len(batch))), batch |-> batch,
     kinds |-> kinds]

AllKinds == {"absent", "good", "unreadable", "not_json", "not_list", "bad_element"}

TreePlaces ==
    << TreePlace(0, channels[1], 0, << M1, M2 >>, AllKinds),
       TreePlace(DateStr(MaxClock), channels[1], MaxClock, << M1b >>, AllKinds),
       TreePlace(0, channels[2], 0, << M1 >>, {"absent", "good", "not_json"}),
       TreePlace(NotADate, channels[1], 0, << M1 >>, {"absent", "good"}) >>

\* The plain file of a place, for each kind of content.
PlaceContent(pl, kind) ==
    LET good == EnrichMessages(pl.path.channel, pl.batch, pl.path.dir, pl.path,
                               pl.path.name.ts)
    IN  CASE kind = "good" -> JsonDump(good)
          [] kind = "bad_element" -> JsonDump(good \o << JsonScalar >>)
          [] OTHER -> Damaged(kind)

\* The tree for one choice of kinds (a function over the places).
TreeOf(choice) ==
    LET present == {i \in 1..Len(TreePlaces) : choice[i] # "absent"}
        plain == {TreePlaces[i].path : i \in present}
        gz == {WithSuffixGz(TreePlaces[i].path) : i \in {j \in present : choice[j] = "good"}}
        PlaceAt(p) == CHOOSE i \in present :
                         p \in {TreePlaces[i].path, WithSuffixGz(TreePlaces[i].path)}
    IN  [p \in plain \cup gz |->
            IF p \in plain
            THEN PlaceContent(TreePlaces[PlaceAt(p)], choice[PlaceAt(p)])
            ELSE Gzip(PlaceContent(TreePlaces[PlaceAt(p)], "good"))]

Trees ==
    { TreeOf(choice) :
        choice \in {c \in [1..Len(TreePlaces) -> AllKinds] :
                       \A i \in 1..Len(TreePlaces) : c[i] \in TreePlaces[i].kinds} }

TreeInit ==
    /\ ScraperInit
    /\ registry = ETHIOPIAN_MEDICAL_CHANNELS
    /\ now \in Times
    /\ fs \in Trees
    /\ saves = << >>
    /\ metaWrites = << >>
    /\ out = [op |-> "none"]
    /\ ops = 0

\* The readers of the data lake, on any tree.
ReadNext ==
    \/ CallGetMessagesForDateRange /\ UNCHANGED << scraperVars, registry >>
    \/ CallGetLatestMessages /\ UNCHANGED << scraperVars, registry >>
    \/ CallValidateDataIntegrity /\ UNCHANGED << scraperVars, registry >>

ReadSpec == TreeInit /\ [][ReadNext]_vars

\* The cleanup of the data lake, on any tree at any time.
CleanupNext == CleanupOldData /\ UNCHANGED << scraperVars, registry >>

CleanupSpec == TreeInit /\ [][CleanupNext]_vars

\* The registry on its own: any channel list an operator can write, and one
\* call of an accessor or of the validation at a time, its result kept in
\* `out`.
ConfigInit ==
    /\ ScraperInit
    /\ registry \in Configs
    /\ LakeInit

\* The accessors that return a list of ChannelConfig.
CallGetEnabledChannels ==
    /\ out' = [op |-> "get_enabled_channels", value |-> get_enabled_channels(registry)]
    /\ UNCHANGED << now, fs, saves, metaWrites, ops >>

CallGetChannelsByCategory ==
    \E category \in Categories :
        /\ out' = [op |-> "get_channels_by_category", category |-> category,
                   value |-> get_channels_by_category(registry, category)]
        /\ UNCHANGED << now, fs, saves, metaWrites, ops >>

CallGetChannelsByPriority ==
    \E min_priority \in Priorities :
        /\ out' = [op |-> "get_channels_by_priority", min_priority |-> min_priority,
                   value |-> get_channels_by_priority(registry, min_priority)]
        /\ UNCHANGED << now, fs, saves, metaWrites, ops >>

CallGetChannelsForImageAnalysis ==
    /\ out' = [op |-> "get_channels_for_image_analysis",
               value |-> get_channels_for_image_analysis(registry)]
    /\ UNCHANGED << now, fs, saves, metaWrites, ops >>

CallGetChannelsForDocumentAnalysis ==
    /\ out' = [op |-> "get_channels_for_document_analysis",
               value |-> get_channels_for_document_analysis(registry)]
    /\ UNCHANGED << now, fs, saves, metaWrites, ops >>

CallGetChannelByUsername ==
    \E username \in ConfigUsernames \cup {channels[2]} :
        /\ out' = [op |-> "get_channel_by_username", username |-> username,
                   value |-> get_channel_by_username(registry, username)]
        /\ UNCHANGED << now, fs, saves, metaWrites, ops >>

CallGetChannelUsernames ==
    /\ out' = [op |-> "get_channel_usernames", value |-> get_channel_usernames(registry)]
    /\ UNCHANGED << now, fs, saves, metaWrites, ops >>

CallGetScrapingSchedule ==
    /\ out' = [op |-> "get_scraping_schedule", value |-> get_scraping_schedule(registry)]
    /\ UNCHANGED << now, fs, saves, metaWrites, ops >>

CallGetChannelMetadata ==
    /\ out' = [op |-> "get_channel_metadata", value |-> get_channel_metadata(registry)]
    /\ UNCHANGED << now, fs, saves, metaWrites, ops >>

CallValidateChannelConfigs ==
    /\ out' = [op |-> "validate_channel_configs",
               value |-> validate_channel_configs(registry)]
    /\ UNCHANGED << now, fs, saves, metaWrites, ops >>

ConfigNext ==
    \/ CallGetEnabledChannels /\ UNCHANGED << scraperVars, registry >>
    \/ CallGetChannelsByCategory /\ UNCHANGED << scraperVars, registry >>
    \/ CallGetChannelsByPriority /\ UNCHANGED << scraperVars, registry >>
    \/ CallGetChannelsForImageAnalysis /\ UNCHANGED << scraperVars, registry >>
    \/ CallGetChannelsForDocumentAnalysis /\ UNCHANGED << scraperVars, registry >>
    \/ CallGetChannelByUsername /\ UNCHANGED << scraperVars, registry >>
    \/ CallGetChannelUsernames /\ UNCHANGED << scraperVars, registry >>
    \/ CallGetScrapingSchedule /\ UNCHANGED << scraperVars, registry >>
    \/ CallGetChannelMetadata /\ UNCHANGED << scraperVars, registry >>
    \/ CallValidateChannelConfigs /\ UNCHANGED << scraperVars, registry >>

ConfigSpec == ConfigInit /\ [][ConfigNext]_vars

\* ----------------------------------------------------------------- history
\* The records delivered to the consumer of the current scrape_messages call,
\* in delivery order, and their message ids.
RecordEvents == SelectSeq(trace, LAMBDA e : e.kind = "record")
DeliveredIds == [i \in 1..Len(RecordEvents) |-> RecordEvents[i].id]

ErrorKinds == {"denied", "other"}
HasEvent(kind) == \E i \in 1..Len(trace) : trace[i].kind = kind

\* The platform messages in range of the current call.
CurrentStream == IterMessages(channel, limit, offset_date)

\* ------------------------------------------------------------------ claims

\* C1: whatever rate-limit signals the platform raises, each in-range message
\* is delivered exactly once: no message id is delivered twice, and when no
\* message failed to process the delivered ids of a completed call are the
\* in-range ids.
C1_ExactlyOnceAcrossFloodWait ==
    /\ \A i, j \in 1..Len(DeliveredIds) : i < j => DeliveredIds[i] # DeliveredIds[j]
    /\ (gen.pc = "done" /\ faults = 0) => DeliveredIds = CurrentStream

\* C2: the number of records delivered by one scrape_messages call never
\* exceeds limit (so with limit = 0 nothing is delivered).
C2_DeliveredWithinLimit == Len(DeliveredIds) <= limit

\* C3: the records of one call are delivered oldest first: an earlier
\* delivered record never has a greater message id than a later one.
C3_OldestFirst ==
    \A i, j \in 1..Len(DeliveredIds) : i < j => DeliveredIds[i] <= DeliveredIds[j]

\* C4: the consumer observes an error exactly when the platform (get_entity or
\* the message iterator) raised an access-denied or other non-rate-limit
\* error; that error ends the sequence
\* (nothing is returned or delivered after it), and a rate-limit signal alone
\* never makes the generator raise, at any depth of retries.
C4_ErrorsSurfaceFloodsPause ==
    /\ (gen.pc = "raised") <=> (\E k \in ErrorKinds : HasEvent(k))
    /\ \A i \in 1..Len(trace) : trace[i].kind \in ErrorKinds => i = Len(trace)
    /\ gen.pc = "flood" => trace[Len(trace)].kind = "flood"
    /\ (cpc = "returned" /\ gen.pc = "raised") =>
           chanResult = Some(ErrorResult("exception"))

\* C4 witness: an error surfaced from inside two nested retries, after a record
\* had been delivered.
C4_Witness ==
    /\ gen.pc = "raised"
    /\ gen.depth >= 2
    /\ Len(RecordEvents) >= 1

\* C5 (as claimed): every message the SDK returns is delivered as a record,
\* also when its processing fails.
C5_FailedMessageStillDelivered ==
    \A i \in 1..Len(trace) :
        trace[i].kind = "returned" =>
            /\ i < Len(trace)
            /\ trace[i + 1].kind = "record"
            /\ trace[i + 1].id = trace[i].id

\* C5 (amended): a message the SDK returns is delivered as a record exactly
\* when no extraction raised while it was processed (a failed media download
\* alone does not stop the delivery); when the extraction of its entities,
\* reactions or forward header raised, the message is dropped and the
\* iteration goes on with the next message.
C5_DeliveredUnlessExtractionRaised ==
    \A i \in 1..Len(trace) :
        trace[i].kind = "returned" =>
            /\ i < Len(trace)
            /\ trace[i + 1].id = trace[i].id
            /\ trace[i + 1].kind =
                   (IF trace[i].failAt = "none" THEN "record" ELSE "dropped")
            /\ trace[i + 1].kind = "record" =>
                   /\ trace[i + 1].rec # None
                   /\ trace[i + 1].rec[1].message_id = trace[i].id
            /\ (i + 1 = Len(trace)) => gen.pc = "iter"

\* C5 witness: a message was dropped because an extraction raised, and a later
\* message of the same call was delivered.
C5_Witness ==
    \E i, j \in 1..Len(trace) :
        /\ i < j
        /\ trace[i].kind = "dropped"
        /\ trace[i].failAt # "none"
        /\ trace[j].kind = "record"

\* A message of the history whose media download failed while nothing else in
\* its processing raised.
DownloadFailedAt(i) ==
    /\ trace[i].kind = "returned"
    /\ trace[i].dl \in {"none", "raise"}
    /\ trace[i].failAt = "none"

\* C6 (as claimed): a message whose media download failed is delivered with
\* its media presence flags unset and its path lists empty, and the iteration
\* goes on.
C6_DownloadFailureClearsMediaFields ==
    \A i \in 1..Len(trace) :
        DownloadFailedAt(i) =>
            /\ i < Len(trace)
            /\ trace[i + 1].kind = "record"
            /\ trace[i + 1].rec[1].has_image = FALSE
            /\ trace[i + 1].rec[1].has_document = FALSE
            /\ trace[i + 1].rec[1].image_paths = << >>
            /\ trace[i + 1].rec[1].document_paths = << >>

\* C6 (amended): a message whose media download failed is still delivered,
\* with its path lists empty but its media presence flag still set (has_image
\* for a photo, has_document for a document), and the sequence is not aborted:
\* the generator goes on to ask for the next message.
C6_DownloadFailureKeepsFlagEmptiesPaths ==
    \A i \in 1..Len(trace) :
        DownloadFailedAt(i) =>
            /\ i < Len(trace)
            /\ trace[i + 1].kind = "record"
            /\ trace[i + 1].id = trace[i].id
            /\ trace[i + 1].rec[1].has_image = (MediaOf(trace[i].id) = "photo")
            /\ trace[i + 1].rec[1].has_document = (MediaOf(trace[i].id) = "document")
            /\ trace[i + 1].rec[1].image_paths = << >>
            /\ trace[i + 1].rec[1].document_paths = << >>
            /\ (i + 1 = Len(trace)) => gen.pc = "iter"

\* C6 witness: the download of a photo failed, its record was delivered, and
\* the record of a later message was delivered after it.
C6_Witness ==
    \E i, j \in 1..Len(trace) :
        /\ DownloadFailedAt(i)
        /\ MediaOf(trace[i].id) = "photo"
        /\ i + 1 < j
        /\ trace[j].kind = "record"
        /\ trace[j].id > trace[i].id

\* Number of records the successful flushes of the current _scrape_channel wrote.
RECURSIVE PersistedUpTo(_)
PersistedUpTo(k) ==
    IF k = 0 THEN 0
    ELSE PersistedUpTo(k - 1) + (IF flushes[k].ok THEN flushes[k].n ELSE 0)

PersistedCount == PersistedUpTo(Len(flushes))

\* C7: a failed batch write is propagated: when _scrape_channel returns
\* success with messages_scraped = n, no flush has failed and all n delivered
\* records are in batch files.
C7_FailedFlushPropagates ==
    (cpc = "returned" /\ chanResult[1].success) =>
        /\ \A i \in 1..Len(flushes) : flushes[i].ok
        /\ PersistedCount = chanResult[1].messages_scraped

\* C8: when the channel was resolved, exactly one metadata record of the
\* channel has been written by the time _scrape_channel returns, whether the
\* message sequence ended normally or with a terminal error.
C8_OneMetadataRecordPerResolvedRun ==
    (cpc = "returned" /\ gen.pc # "none") => metaFiles[channel] = 1

\* C9: with the session open, scrape_all_channels calls _scrape_channel for
\* the configured channels in list order whatever the earlier outcomes were,
\* every channel processed has exactly the outcome _scrape_channel returned,
\* the loop is left only after the last channel, and an exception leaves
\* scrape_all_channels only before the loop (connect) or after it (disconnect,
\* report), never from a channel.
C9_EveryChannelAttemptedAndRecorded ==
    mode = "all" =>
        /\ Len(attempted) <= Len(channels)
        /\ attempted = SubSeq(channels, 1, Len(attempted))
        /\ Len(attempted) = (IF pc = "channel" THEN idx ELSE idx - 1)
        /\ \A k \in 1..Len(channels) :
               (results[channels[k]] # None) <=> (k < idx)
        /\ pc \in {"report", "returned"} => attempted = channels
        /\ pc = "raised" => (attempted = << >> \/ attempted = channels)

\* C9 witness: the run returned after the first channel had failed and the
\* last one had succeeded.
C9_Witness ==
    /\ mode = "all"
    /\ pc = "returned"
    /\ ~results[channels[1]][1].success
    /\ results[channels[Len(channels)]][1].success

\* A report that enumerates the outcome of every configured channel.
ReportComplete(r) ==
    /\ \A ch \in Channels : r.channel_results[ch] # None
    /\ r.total_channels = Len(channels)
    /\ r.successful_channels + r.failed_channels = Len(channels)
    /\ r.successful_channels =
           Cardinality({ch \in Channels : r.channel_results[ch][1].success})

\* C10 (as claimed): every invocation of scrape_all_channels that has ended,
\* also one whose session could not be established, has written exactly one
\* complete report.
C10_ReportOnEveryPath ==
    (mode = "all" /\ pc \in {"returned", "raised"}) =>
        /\ Len(reports) = 1
        /\ ReportComplete(reports[1])

\* C10 (amended): every invocation of scrape_all_channels that returns has
\* written exactly one report, which enumerates the outcome of every
\* configured channel, whether all channels succeeded or all failed; an
\* invocation that has not returned (in particular one that raised because
\* the session could not be established) has written none.
C10_ReportWhenRunReturns ==
    mode = "all" =>
        /\ pc = "returned" => (Len(reports) = 1 /\ ReportComplete(reports[1]))
        /\ pc # "returned" => reports = << >>

\* C10 witness: a run in which every channel failed returned with its report.
C10_Witness ==
    /\ mode = "all"
    /\ pc = "returned"
    /\ Len(reports) = 1
    /\ reports[1].failed_channels = Len(channels)

\* Elements of a sequence, as a set.
Range(s) == {s[i] : i \in 1..Len(s)}

\* C11: the channels scrape_all_channels scrapes are exactly the channels the
\* registry reports as enabled: no channel with enabled = false is ever
\* scraped, and once the loop is over every enabled channel has been scraped.
C11_ScrapedAreTheEnabledChannels ==
    mode = "all" =>
        /\ Range(attempted) \subseteq Range(get_channel_usernames(registry))
        /\ pc \in {"report", "returned"} =>
               Range(attempted) = Range(get_channel_usernames(registry))

\* ------------------------------------------------- history of the data lake
\* A stored record without the metadata save_messages injected.
StripMetadata(m) == [k \in DOMAIN m \ {"_metadata"} |-> m[k]]
StoredBatch(c) == [i \in 1..Len(c.items) |-> StripMetadata(c.items[i])]

\* How often x occurs in the sequence s.
Count(x, s) == Cardinality({i \in 1..Len(s) : s[i] = x})

\* The messages of the model.
Messages == {M1, M1b, M2}

\* The batch writes of the history that went into partition (dir, ch).
SavesInto(dir, ch) ==
    SelectSeq(saves, LAMBDA e : e.dir = dir /\ e.channel = ch)

\* How often message m was saved into partition (dir, ch).
RECURSIVE TimesSaved(_, _)
TimesSaved(m, events) ==
    IF events = << >> THEN 0
    ELSE Count(m, Head(events).batch) + TimesSaved(m, Tail(events))

\* C12: any two distinct batch writes into the same (date, channel) partition
\* get distinct file names, so no batch file is overwritten by a later batch:
\* every batch that was written is still the content of its file.
C12_DistinctBatchFileNames ==
    /\ \A i, j \in 1..Len(saves) :
          (i < j /\ saves[i].dir = saves[j].dir /\ saves[i].channel = saves[j].channel)
              => saves[i].path # saves[j].path
    /\ \A i \in 1..Len(saves) :
          saves[i].wrote =>
              /\ saves[i].path \in DOMAIN fs
              /\ StoredBatch(fs[saves[i].path]) = saves[i].batch

\* All batch writes so far were successful save_messages calls.
OnlySuccessfulSaves ==
    \A i \in 1..Len(saves) : saves[i].writer = "store" /\ saves[i].wrote

\* C13: after successful save_messages calls, reading a partition back with
\* get_messages_for_date_range over its date returns every record exactly as
\* often as it was saved into the partition: none is missing, none is
\* returned more often (the compressed copy is not read as a second batch).
C13_ReadBackEverySavedRecordOnce ==
    OnlySuccessfulSaves =>
        \A ch \in LakeChannels, day \in Days :
            LET back == GetMessagesForDateRange(fs, ch, ParseDate(day), ParseDate(day))
                read == [i \in 1..Len(back) |-> StripMetadata(back[i])]
            IN  \A m \in Messages :
                    Count(m, read) = TimesSaved(m, SavesInto(day, ch))

\* The batch files of the tree, plain and compressed.
BatchFiles == {p \in DOMAIN fs : p.name.stem = "messages"}
PlainOf(p) == [p EXCEPT !.name.ext = "json"]

\* C14: every persisted batch exists as a pair, a gzip copy and a plain copy
\* under the same name whose decoded contents are identical, also after a
\* write that failed part-way; save_messages returns the path of the plain
\* copy.
C14_BatchesPersistedAsPairs ==
    /\ \A p \in BatchFiles :
          /\ PlainOf(p) \in DOMAIN fs
          /\ WithSuffixGz(p) \in DOMAIN fs
          /\ fs[WithSuffixGz(p)].kind = "gzip"
          /\ Gunzip(fs[WithSuffixGz(p)]) = fs[PlainOf(p)]
    /\ (out.op = "save_messages" /\ ~out.result.raised) =>
          /\ out.result.value.name.ext = "json"
          /\ out.result.value \in DOMAIN fs

\* The records of the readable batch files of the partitions of channel ch
\* dated day first_day to day last_day, both included.
RECURSIVE RecordsOfDays(_, _, _, _)
RecordsOfDays(f, ch, first_day, last_day) ==
    IF first_day > last_day THEN << >>
    ELSE LoadAll(f, SortedFiles(GlobMessages(f, first_day, ch)))
         \o RecordsOfDays(f, ch, first_day + 1, last_day)

\* C15: get_messages_for_date_range(channel, start, end) returns the records
\* of all readable batch files of every partition of the channel whose date
\* lies between the date of start and the date of end, both included,
\* whatever the times of day of start and end (start not after end); missing
\* partitions and corrupt files are skipped and the call does not fail.
C15_RangeCoversEveryDateInclusive ==
    (out.op = "get_messages_for_date_range" /\ out.start_date <= out.end_date) =>
        /\ ~out.result.raised
        /\ out.result.value =
               RecordsOfDays(fs, out.channel, DateStr(out.start_date),
                             DateStr(out.end_date))

\* Every record stored for channel ch, in any entry of the tree.
StoredRecords(f, ch) == LoadAll(f, ChannelFiles(f, ch, SortedDirs(GlobDirs(f))))

\* C16: get_latest_messages(channel, limit) returns at most limit records, in
\* non-increasing order of message date, and they are the latest stored: no
\* stored record that is left out has a later date than a returned one.
C16_LatestMessagesAreTheLatest ==
    (out.op = "get_latest_messages" /\ ~out.result.raised) =>
        LET res == out.result.value
            stored == StoredRecords(fs, out.channel)
        IN  /\ Len(res) <= out.limit
            /\ \A i, j \in 1..Len(res) : i < j => res[i].date >= res[j].date
            /\ \A k \in 1..Len(stored) :
                   (IsObject(stored[k]) /\ Count(stored[k], res) < Count(stored[k], stored))
                       => \A i \in 1..Len(res) : stored[k].date <= res[i].date

\* A batch file validate_data_integrity has to report: it cannot be read, is
\* not JSON, is not a list, or is a list with an element that is not an object.
Offending(c) ==
    \/ c.kind # "list"
    \/ \E i \in 1..Len(c.items) : ~IsObject(c.items[i])

\* C17: validate_data_integrity(channel) never raises: whatever the batch
\* files of the channel hold, it returns a report, and the files recorded in
\* its errors are exactly the offending ones.
C17_ValidateNeverRaises ==
    out.op = "validate_data_integrity" =>
        /\ ~out.result.raised
        /\ LET rep == out.result.value
               found == {p \in DOMAIN fs : /\ p.channel = out.channel
                                           /\ p.name.stem = "messages"
                                           /\ p.name.ext = "json"}
           IN  /\ rep.total_files = Cardinality(found)
               /\ \A p \in found :
                      Offending(fs[p]) <=>
                          \E i \in 1..Len(rep.errors) : rep.errors[i].file = p

\* C17 witness: a report was returned for a channel with a file that could not
\* be read or parsed, a file holding a list with an element that is not an
\* object, and a valid file after them.
C17_Witness ==
    /\ out.op = "validate_data_integrity"
    /\ ~out.result.raised
    /\ LET rep == out.result.value
       IN  /\ Len(rep.errors) = 2
           /\ rep.errors[1].what = "reading"
           /\ fs[rep.errors[1].file].kind \in {"unreadable", "not_json"}
           /\ fs[rep.errors[2].file].kind = "list"
           /\ rep.total_files = 3

\* The history consists of two successful save_messages calls for channel ch,
\* one with the record M1 and one with M1b, which agree on (message_id, date,
\* text) and differ in another field.
SavedTwins(ch) ==
    /\ OnlySuccessfulSaves
    /\ Len(saves) = 2
    /\ \A i \in 1..2 : saves[i].channel = ch
    /\ {saves[1].batch, saves[2].batch} = {<< M1 >>, << M1b >>}

\* C18: two records saved through the store with the same (message_id, date,
\* text) and different other fields get the same content hash, and after both
\* saves validate_data_integrity counts exactly one duplicate for them,
\* whatever the timing of the two calls.
C18_TwinsCountedAsOneDuplicate ==
    \A ch \in LakeChannels :
        SavedTwins(ch) =>
            /\ GenerateMessageHash(M1) = GenerateMessageHash(M1b)
            /\ ~ValidateDataIntegrity(fs, ch).raised
            /\ ValidateDataIntegrity(fs, ch).value.duplicate_messages = 1

\* The partition date of the entry d, if its name is a date older than now
\* minus days_to_keep days.
OlderThanCutoff(d, days_to_keep) ==
    d # NotADate /\ ParseDate(d) < now - days_to_keep * DayLen

MetadataFiles(dir, ch) ==
    {p \in DOMAIN fs : /\ p.dir = dir
                       /\ p.channel = ch
                       /\ p.name.stem \in {"metadata", "channel_metadata"}}

\* The metadata writes of the history into partition (dir, ch).
MetaWritesInto(dir, ch) ==
    SelectSeq(metaWrites, LAMBDA e : e.path.dir = dir /\ e.path.channel = ch)

\* C20: after any scraper runs and save_channel_metadata calls, each (date,
\* channel) partition holds at most one channel-metadata file, and its content
\* is that of the most recent metadata write into the partition.
C20_OneMetadataFilePerPartition ==
    \A dir \in Days, ch \in LakeChannels :
        /\ Cardinality(MetadataFiles(dir, ch)) <= 1
        /\ \A p \in MetadataFiles(dir, ch) :
               LET w == MetaWritesInto(dir, ch)
               IN  w # << >> /\ fs[p] = w[Len(w)].content

\* ------------------------------------------------- history of the registry
\* The entries of the registry that are switched off.
Disabled(reg) == {reg[i] : i \in 1..Len(reg)} \ Range(get_enabled_channels(reg))

ConfigListOps ==
    {"get_enabled_channels", "get_channels_by_category", "get_channels_by_priority",
     "get_channels_for_image_analysis", "get_channels_for_document_analysis"}

\* A switched-off entry c shows in the result of the last call: as an element
\* of a returned list, as the looked-up entry, or as the entry a returned dict
\* holds under its username.
AppearsIn(c, o) ==
    CASE o.op \in ConfigListOps -> c \in Range(o.value)
      [] o.op = "get_channel_usernames" ->
            /\ c.username \in Range(o.value)
            /\ \A e \in Range(get_enabled_channels(registry)) : e.username # c.username
      [] o.op = "get_channel_by_username" -> o.value = Some(c)
      [] o.op = "get_scraping_schedule" ->
            /\ c.username \in DOMAIN o.value
            /\ \A e \in Range(get_enabled_channels(registry)) : e.username # c.username
      [] o.op = "get_channel_metadata" ->
            /\ c.username \in DOMAIN o.value
            /\ o.value[c.username] = MetadataEntry(c)
      [] OTHER -> FALSE

\* C21: whatever the registry holds, an entry with enabled = false shows in
\* the result of no listing or schedule accessor (enabled list, by category,
\* by priority, usernames, image and document lists, schedule, metadata
\* listing, lookup by username).
C21_DisabledChannelsNeverListed ==
    \A c \in Disabled(registry) : ~ AppearsIn(c, out)

\* The positions of the registry whose priority lies outside 1..10.
OutOfRangePriority(reg) == {i \in 1..Len(reg) : reg[i].priority \notin 1..10}

\* C24: validate_channel_configs reports no error exactly when the usernames
\* of the registry are pairwise distinct and every channel has a positive
\* scraping limit and a positive scraping interval; total_channels is the
\* number of channels of the registry, enabled_channels the number of enabled
\* ones, and a priority outside 1..10 gives a warning and no error.
C24_ValidationReport ==
    out.op = "validate_channel_configs" =>
        /\ out.value.errors = << >> <=>
               /\ \A i, j \in 1..Len(registry) :
                      i # j => registry[i].username # registry[j].username
               /\ \A i \in 1..Len(registry) :
                      /\ registry[i].scraping_limit > 0
                      /\ registry[i].scraping_interval_hours > 0
        /\ out.value.total_channels = Len(registry)
        /\ out.value.enabled_channels =
               Cardinality({i \in 1..Len(registry) : registry[i].enabled})
        /\ Len(out.value.warnings) = Cardinality(OutOfRangePriority(registry))
        /\ \A i \in OutOfRangePriority(registry) :
               /\ Finding("priority", registry[i].username) \in Range(out.value.warnings)
               /\ Finding("priority", registry[i].username) \notin Range(out.value.errors)

C24_Witness ==
    /\ out.op = "validate_channel_configs"
    /\ Len(registry) = 2
    /\ registry[1].username # registry[2].username
    /\ ~ registry[1].enabled /\ registry[2].enabled
    /\ registry[1].priority = 11
    /\ out.value.errors = << >>
    /\ out.value.warnings = << Finding("priority", registry[1].username) >>
    /\ out.value.total_channels = 2
    /\ out.value.enabled_channels = 1

\* ------------------------------------------------ history of the lookups
LookupEvents == SelectSeq(trace, LAMBDA e : e.kind = "lookup")

\* C22: get_channel_info returns None without raising when the channel does
\* not exist, and raises when the lookup failed at the transport level, so
\* that its caller can tell the two apart.
C22_LookupTellsMissingFromTransportFailure ==
    \A i \in 1..Len(LookupEvents) :
        /\ LookupEvents[i].outcome = "missing" =>
               LookupEvents[i].result = Returned(None)
        /\ LookupEvents[i].outcome = "transport" =>
               LookupEvents[i].result = Raised

\* ------------------------------------------------------ incremental_scrape
\* C23: incremental_scrape(hours_back) runs scrape_all_channels with the lower
\* bound now - hours_back hours and the limit 500 per channel, for every
\* hours_back >= 0: also for a window shorter than 24 hours and for 0 the
\* bound is neither rounded to whole days nor left out.
C23_IncrementalWindowInHours ==
    (out.op = "incremental_scrape" /\ mode = "all") =>
        /\ limit = IncrementalLimit
        /\ offset_date = Some(Today - out.hours_back)

\* -------------------------------------------------- history of the batches
\* The records the generator has yielded to _scrape_channel, in order.
DeliveredRecords == [i \in 1..Len(RecordEvents) |-> RecordEvents[i].rec[1]]

\* The batches handed to _save_messages_batch up to the k-th, concatenated.
RECURSIVE FlushedUpTo(_)
FlushedUpTo(k) == IF k = 0 THEN << >> ELSE FlushedUpTo(k - 1) \o flushes[k].batch

\* C25: during _scrape_channel the batch in memory never holds more than 100
\* records; every flush but the last hands over exactly 100 records and none
\* is empty; the batches flushed so far followed by the batch in memory are
\* the records delivered so far, and once the run has returned the flushed
\* batches alone are the delivered sequence, the last of them holding
\* n mod 100 records when that is not zero.
C25_BatchesPartitionTheDeliveredSequence ==
    pc = "channel" =>
        /\ Len(messages) <= BatchSize
        /\ \A i \in 1..Len(flushes) :
               /\ flushes[i].n > 0
               /\ i < Len(flushes) => flushes[i].n = BatchSize
        /\ cpc = "stream" =>
               FlushedUpTo(Len(flushes)) \o messages = DeliveredRecords
        /\ cpc = "returned" =>
               /\ FlushedUpTo(Len(flushes)) = DeliveredRecords
               /\ Len(DeliveredRecords) % BatchSize # 0 =>
                      /\ flushes # << >>
                      /\ flushes[Len(flushes)].n = Len(DeliveredRecords) % BatchSize

\* ------------------------------------------------ how a channel run ends
\* The run is leaving RESOLVING with a failure: the lookup gave no info.
FailedResolving ==
    /\ LookupEvents # << >>
    /\ LookupEvents[Len(LookupEvents)].result # Returned(Some("channel_info"))

\* The run is leaving STREAMING with a failure: the message sequence raised.
FailedStreaming == gen.pc = "raised"

\* C26: a channel run ends with exactly one result, a success or an error,
\* and it ends with an error only out of the resolution of the channel or out
\* of the message sequence: a failed flush of a batch, or a failed write of
\* the channel metadata once the sequence has ended, never makes the result
\* an error.
C26_FailedOnlyFromResolvingOrStreaming ==
    (pc = "channel" /\ cpc = "returned") =>
        /\ Len(chanResult) = 1
        /\ ~ chanResult[1].success => (FailedResolving \/ FailedStreaming)

\* --------------------------------------------- one channel after another
\* The channels _scrape_channel was called for and whose result is not yet in
\* the results dict.
Unfinished == {ch \in Range(attempted) : results[ch] = None}

\* C27: scrape_all_channels handles the channels one after another within one
\* client session: at most one channel is unfinished at any time, a channel
\* is resolved only when the result of every earlier channel is recorded and
\* the pause after each of them is over, and the pause follows every channel,
\* a failed one too.
C27_ChannelsOneAfterAnother ==
    mode = "all" =>
        /\ Cardinality(Unfinished) <= 1
        /\ Unfinished # {} => (pc = "channel" /\ Unfinished = {channel})
        /\ attempted # << >> => pc \notin {"idle", "connect"}
        /\ pc = "channel" =>
               /\ \A k \in 1..(idx - 1) : results[channels[k]] # None
               /\ pauses = SubSeq(channels, 1, idx - 1)
        /\ pc = "loop" =>
               /\ \A k \in 1..(idx - 1) : results[channels[k]] # None
               /\ pauses = SubSeq(channels, 1, idx - 1)

C27_Witness ==
    /\ mode = "all"
    /\ pc = "channel"
    /\ cpc = "resolve"
    /\ idx = 2
    /\ results[channels[1]] # None
    /\ ~ results[channels[1]][1].success
    /\ pauses = << channels[1] >>

\* ----------------------------------------- what a scrape run leaves on disk
\* The fields save_messages puts under "_metadata" of every record.
MetadataFields == {"scraped_at", "channel", "partition_date", "file_path", "message_hash"}

\* Record x of a batch file carries the metadata of the data lake manager.
CarriesMetadata(x) ==
    /\ IsObject(x)
    /\ "_metadata" \in DOMAIN x
    /\ DOMAIN x["_metadata"] = MetadataFields

\* The i-th batch write is the latest one that reached its file.
LatestWriteOf(i) ==
    /\ saves[i].wrote
    /\ \A j \in (i + 1)..Len(saves) : ~ (saves[j].wrote /\ saves[j].path = saves[i].path)

\* C28: every record a _scrape_channel run has persisted went through the
\* data lake manager: in the file it carries the injected metadata (capture
\* time, channel, partition date, destination path, content hash), so that
\* no record written by a scrape run is without a content hash.
C28_ScrapedRecordsCarryMetadata ==
    \A i \in 1..Len(saves) :
        (saves[i].writer = "scraper" /\ LatestWriteOf(i)) =>
            /\ saves[i].path \in DOMAIN fs
            /\ fs[saves[i].path].kind = "list"
            /\ Len(fs[saves[i].path].items) = Len(saves[i].batch)
            /\ \A k \in 1..Len(fs[saves[i].path].items) :
                   CarriesMetadata(fs[saves[i].path].items[k])

\* ------------------------------------------------ the counts of a report
\* C29: in every report validate_data_integrity returns, total_files is
\* valid_files plus invalid_files: a batch file found counts as valid or as
\* invalid and never as both, a file holding a JSON list with an element that
\* is not an object included.
C29_FilesCountedValidOrInvalid ==
    (out.op = "validate_data_integrity" /\ ~ out.result.raised) =>
        out.result.value.total_files =
            out.result.value.valid_files + out.result.value.invalid_files

\* -------------------------------------------------- metrics of a call
\* The delivered records that carry an image.
DeliveredImages == SelectSeq(DeliveredRecords, LAMBDA r : r.has_image)

\* The metrics entry of a channel before its first call of the run.
NoMetrics == [messages |-> 0, images |-> 0, scraping_count |-> 0]

\* C30: when a scrape_messages sequence has completed normally, the metrics
\* entry of the channel has grown by the number of records and of image
\* records delivered to the consumer during the call and its run count by
\* one, FloodWaitErrors during the call or not; when the sequence has ended
\* with an error the entry is as it was before the call.
C30_MetricsCountTheDeliveredRecords ==
    (pc = "channel" /\ cpc = "stream") =>
        /\ gen.pc = "done" =>
               metrics[channel] = [messages |-> Len(DeliveredRecords),
                                   images |-> Len(DeliveredImages),
                                   scraping_count |-> 1]
        /\ gen.pc = "raised" => metrics[channel] = NoMetrics

====
